---------------------------- MODULE Spec2Model ----------------------------
(***************************************************************************)
(* A model of prediction.py: the batch job that loads a monthly table of   *)
(* four greenhouse-gas series, cleans it, grid-searches a SARIMA order for *)
(* each series by AIC, forecasts six months, and writes a CSV file and an  *)
(* HTML chart.                                                             *)
(*                                                                         *)
(* The numerical library (SARIMAX) is the environment: for the series at   *)
(* hand it answers every candidate order pair with either an exception or  *)
(* a fitted model carrying an AIC (a float, which may be NaN).  That       *)
(* answer is the variable fits.  Observed values and forecast values are   *)
(* numbers that only the library reads and writes; the model keeps the     *)
(* cells' kind (a number, missing, or text that is no number) and the      *)
(* forecast records' gas and date.                                         *)
(***************************************************************************)
EXTENDS Integers, Sequences, FiniteSets, TLC

VARIABLES
    pc,                   \* position of the script
    source,               \* what the URL serves: "unreachable", "malformed", "ok"
    table,                \* the frame pd.read_csv returns (df before line 66)
    df,                   \* the cleaned frame (df from line 66 on): its dates
    dtypes,               \* the dtype of each target column of the frame
    gas_idx,              \* position of the loop over target_gases (0: not begun)
    fits,                 \* the library's answer to each candidate, for the current series
    search_trace,         \* best-so-far after 0, 1, ..., n iterations of the search
    best_order,           \* line 112
    best_seasonal_order,  \* line 112
    all_forecasts,        \* line 70: the forecast records appended so far
    csv,                  \* the CSV file: written or not, and its rows
    logo_file,            \* logo_bmkg.png as line 148 finds it ("unknown" before)
    logo_available,       \* line 151 / 154
    html,                 \* the HTML file: written or not, and its embedded images
    error                 \* how the run ended early, if it did

vars == <<pc, source, table, df, dtypes, gas_idx, fits, search_trace, best_order,
          best_seasonal_order, all_forecasts, csv, logo_file, logo_available, html,
          error>>

-----------------------------------------------------------------------------
(* Bounds of the model.                                                    *)

\* the longest input table, in rows
MaxRows == 3

\* the finite AIC scores are 1 .. MaxAic
MaxAic == 2

\* the candidates that do not raise lie in a window of this many consecutive
\* candidates of the enumeration (anywhere in it); all others raise
Window == 3

-----------------------------------------------------------------------------
(* Program constants.                                                      *)

forecast_horizon == 6

RangeStart == 0

RangeStop == 2

s == 12

NumPanels == 4

target_gases == <<"CO2_seasonal", "CH4_seasonal", "N2O_seasonal", "SF6_seasonal">>

Gases == {target_gases[i] : i \in 1..Len(target_gases)}

AllColumns == {"Date"} \cup Gases

\* Python's None
None == <<>>

-----------------------------------------------------------------------------
(* Floats, as far as the search reads them: a finite number, +inf (the     *)
(* initial best score) or NaN.  Comparison follows IEEE 754: anything      *)
(* compared with NaN is false.                                             *)

Num(v) == [k |-> "num", v |-> v]

Inf == [k |-> "inf", v |-> 0]

NaN == [k |-> "nan", v |-> 0]

PyGreater(a, b) ==
    /\ a.k # "nan"
    /\ b.k # "nan"
    /\ \/ a.k = "inf" /\ b.k = "num"
       \/ a.k = "num" /\ b.k = "num" /\ a.v > b.v

PyLessEq(a, b) ==
    /\ a.k # "nan"
    /\ b.k # "nan"
    /\ \/ b.k = "inf"
       \/ a.k = "num" /\ b.k = "num" /\ a.v <= b.v

\* results.aic < best_aic
PyLess(a, b) ==
    /\ a.k # "nan"
    /\ b.k # "nan"
    /\ \/ a.k = "num" /\ b.k = "inf"
       \/ a.k = "num" /\ b.k = "num" /\ a.v < b.v

-----------------------------------------------------------------------------
(* Dates.  A Date cell of the table is missing (empty or '#N/A', which    *)
(* read_csv turns into NaN) or text "<mon>-<year>", kept as its two parts: *)
(* the letters before the dash and the digits after it.  A timestamp is    *)
(* year, month, day, or NaT.                                               *)

UpperLetters == <<"A", "B", "C", "D", "E", "F", "G", "H", "I", "J", "K", "L", "M",
                  "N", "O", "P", "Q", "R", "S", "T", "U", "V", "W", "X", "Y", "Z">>

LowerLetters == <<"a", "b", "c", "d", "e", "f", "g", "h", "i", "j", "k", "l", "m",
                  "n", "o", "p", "q", "r", "s", "t", "u", "v", "w", "x", "y", "z">>

\* str.lower() of one character
ToLower(ch) ==
    IF \E i \in 1..Len(UpperLetters) : UpperLetters[i] = ch
    THEN LowerLetters[CHOOSE i \in 1..Len(UpperLetters) : UpperLetters[i] = ch]
    ELSE ch

LowerText(txt) == [i \in 1..Len(txt) |-> ToLower(txt[i])]

\* the month names %b matches, whatever their case
MonthAbbr == << <<"j", "a", "n">>, <<"f", "e", "b">>, <<"m", "a", "r">>,
                <<"a", "p", "r">>, <<"m", "a", "y">>, <<"j", "u", "n">>,
                <<"j", "u", "l">>, <<"a", "u", "g">>, <<"s", "e", "p">>,
                <<"o", "c", "t">>, <<"n", "o", "v">>, <<"d", "e", "c">> >>

TextCell(mon, year) == [kind |-> "text", mon |-> mon, year |-> year]

MissingCell == [kind |-> "missing", mon |-> <<>>, year |-> <<>>]

\* pd.NaT
NaT == [y |-> 0, m |-> 0, d |-> 0]

\* the number four digits spell
YearValue(digits) ==
    digits[1] * 1000 + digits[2] * 100 + digits[3] * 10 + digits[4]

DateLess(a, b) ==
    \/ a.y < b.y
    \/ a.y = b.y /\ a.m < b.m
    \/ a.y = b.y /\ a.m = b.m /\ a.d < b.d

\* pd.Timestamp.min and pd.Timestamp.max, to the day: the dates a
\* nanosecond timestamp (datetime64[ns], what pd.to_datetime builds) holds
TimestampMin == [y |-> 1677, m |-> 9, d |-> 21]

TimestampMax == [y |-> 2262, m |-> 4, d |-> 11]

\* a first-of-month date that a nanosecond timestamp holds; outside,
\* pandas raises OutOfBoundsDatetime
InBounds(date) == DateLess(TimestampMin, date) /\ DateLess(date, TimestampMax)

\* the first day of the month and year the text of a cell names
FirstOfMonth(cell) ==
    [y |-> YearValue(cell.year),
     m |-> CHOOSE i \in 1..Len(MonthAbbr) : MonthAbbr[i] = LowerText(cell.mon),
     d |-> 1]

\* whether pd.to_datetime(cell, format='%b-%Y') accepts the cell: a missing
\* cell is accepted (it becomes NaT); text must be a month name of %b, in
\* any case, and a year of exactly four digits that is not 0000, and the
\* date must be one a nanosecond timestamp holds
Parseable(cell) ==
    \/ cell.kind = "missing"
    \/ /\ cell.kind = "text"
       /\ \E i \in 1..Len(MonthAbbr) : MonthAbbr[i] = LowerText(cell.mon)
       /\ Len(cell.year) = 4
       /\ YearValue(cell.year) >= 1
       /\ InBounds(FirstOfMonth(cell))

\* pd.to_datetime(cell, format='%b-%Y'): the first day of that month, or NaT
ParseDate(cell) ==
    IF cell.kind = "missing" THEN NaT ELSE FirstOfMonth(cell)

IsLeap(y) == (y % 4 = 0 /\ y % 100 # 0) \/ y % 400 = 0

DaysInMonth(y, m) ==
    IF m = 2 THEN (IF IsLeap(y) THEN 28 + 1 ELSE 28)
    ELSE IF m \in {4, 6, 9, 11} THEN 30
    ELSE 31

MinInt(a, b) == IF a < b THEN a ELSE b

DateOffsetNoCarry(date, n) ==
    [y |-> date.y, m |-> ((date.m - 1 + n) % 12) + 1, d |-> date.d]

\* date + pd.DateOffset(months=n): the month moves, the year carries, the day
\* is kept unless the new month is shorter
DateOffsetMonths(date, n) ==
    LET total == date.m - 1 + n
        y2 == date.y + (total \div 12)
        m2 == (total % 12) + 1
    IN [y |-> y2, m |-> m2, d |-> MinInt(date.d, DaysInMonth(y2, m2))]

\* pd.date_range(start=start, periods=periods, freq='MS'): the first
\* month start on or after start, and the month starts that follow it
DateRangeMS(start, periods) ==
    LET first == IF start.d = 1 THEN start
                 ELSE [DateOffsetMonths(start, 1) EXCEPT !.d = 1]
    IN [i \in 1..periods |-> DateOffsetMonths(first, i - 1)]

\* the order df.sort_index() puts the index in: ascending, NaT last
IndexBefore(a, b) == a # NaT /\ (b = NaT \/ DateLess(a, b))

\* ts.index.max(): the latest date, NaT left out; NaT when there is none
IndexMax(frame) ==
    LET dates == {frame[i] : i \in 1..Len(frame)} \ {NaT}
    IN IF dates = {} THEN NaT
       ELSE CHOOSE x \in dates : \A y \in dates : ~DateLess(x, y)

-----------------------------------------------------------------------------
(* Data preparation, lines 49-66.                                          *)

\* lines 50 and 60 raise: no Date column, a Date cell that pd.to_datetime
\* does not accept, or a target column that is missing
PrepareRaises(t) ==
    \/ ~(AllColumns \subseteq t.cols)
    \/ \E i \in 1..Len(t.rows) : ~Parseable(t.rows[i].Date)

\* some cell of a target column holds text that is no number
NonNumeric(t) == \E i \in 1..Len(t.rows) : t.rows[i].text \cap Gases # {}

\* the table is not the monthly table of numbers the script is written for:
\* it raises in lines 50-60, or a target column is not numeric
Malformed(t) == PrepareRaises(t) \/ NonNumeric(t)

\* the dtype pd.read_csv gives column g: float64 when every cell is a
\* number or missing, object when a cell holds other text or there is no row
Dtype(t, g) ==
    IF Len(t.rows) = 0 \/ \E i \in 1..Len(t.rows) : g \in t.rows[i].text
    THEN "object"
    ELSE "float64"

\* lines 50-66: parse the dates, sort by date, keep the target columns, drop
\* every row with a missing value in any of them (a missing date drops
\* nothing: the date is the index; text that is no number is not missing).  What is left of a row is its date: the
\* index of the cleaned frame.
CleanFrame(t) ==
    LET parsed == [i \in 1..Len(t.rows) |->
                      [Date |-> ParseDate(t.rows[i].Date), na |-> t.rows[i].na]]
        sorted == SortSeq(parsed, LAMBDA a, b : IndexBefore(a.Date, b.Date))
        kept == SelectSeq(sorted, LAMBDA r : r.na \cap Gases = {})
    IN [i \in 1..Len(kept) |-> kept[i].Date]

-----------------------------------------------------------------------------
(* The order search, lines 72-100.                                         *)

\* range(a, b)
PyRange(a, b) == [i \in 1..(b - a) |-> a + i - 1]

\* list(itertools.product(A, B, C)): every triple, the last component
\* varying fastest
Product(A, B, C) ==
    [k \in 1..(Len(A) * Len(B) * Len(C)) |->
        <<A[((k - 1) \div (Len(B) * Len(C))) + 1],
          B[(((k - 1) \div Len(C)) % Len(B)) + 1],
          C[((k - 1) % Len(C)) + 1]>>]

\* lines 104-105
p_range == PyRange(RangeStart, RangeStop)

\* lines 80-81, with the ranges of the call on line 112
param_combinations == Product(p_range, p_range, p_range)

seasonal_param_combinations == Product(p_range, p_range, p_range)

\* lines 83-84: the iterations of the two nested loops, in order
NestedLoops ==
    [k \in 1..(Len(param_combinations) * Len(seasonal_param_combinations)) |->
        [order |-> param_combinations[
                       ((k - 1) \div Len(seasonal_param_combinations)) + 1],
         parts |-> seasonal_param_combinations[
                       ((k - 1) % Len(seasonal_param_combinations)) + 1]]]

NumCandidates == Len(NestedLoops)

\* line 85
SeasonalOrder(parts, seasonality) == Append(parts, seasonality)

\* the library's answer to one candidate
Raises == [raised |-> TRUE, aic |-> NaN]

Fitted(a) == [raised |-> FALSE, aic |-> a]

\* lines 76-78
InitialBest == [best_aic |-> Inf, best_order |-> None, best_seasonal_order |-> None]

UpdateOrderOnly(best, aic, order, seasonal_order) ==
    [best EXCEPT !.best_aic = aic, !.best_order = order]

\* lines 95-97
UpdateBest(best, aic, order, seasonal_order) ==
    [best_aic |-> aic, best_order |-> order, best_seasonal_order |-> seasonal_order]

ResetOnFailure(best) == InitialBest

\* lines 98-99: except: continue
OnFitFailure(best) == best

\* lines 85-99: one iteration of the inner loop
LoopBody(best, order, parts, seasonality, outcome) ==
    LET seasonal_order == SeasonalOrder(parts, seasonality)
    IN IF outcome.raised
       THEN OnFitFailure(best)
       ELSE IF PyLess(outcome.aic, best.best_aic)
            THEN UpdateBest(best, outcome.aic, order, seasonal_order)
            ELSE best

\* lines 83-99: the loops, from iteration k on; tr holds the best-so-far
\* after each iteration done, the initial one first
RECURSIVE RunLoops(_, _, _, _)
RunLoops(tr, k, seasonality, f) ==
    IF k > NumCandidates
    THEN tr
    ELSE RunLoops(Append(tr, LoopBody(tr[Len(tr)], NestedLoops[k].order,
                                      NestedLoops[k].parts, seasonality, f[k])),
                  k + 1, seasonality, f)

\* lines 76-99
SearchTrace(seasonality, f) == RunLoops(<<InitialBest>>, 1, seasonality, f)

-----------------------------------------------------------------------------
(* The inputs.                                                             *)

\* Date cells that pd.to_datetime accepts: Nov-2023, DEC-2023, Jan-2024,
\* Oct-1677 and a missing cell
GoodDateCells ==
    {TextCell(<<"N", "o", "v">>, <<2, 0, 2, 3>>),
     TextCell(<<"D", "E", "C">>, <<2, 0, 2, 3>>),
     TextCell(<<"J", "a", "n">>, <<2, 0, 2, 4>>),
     TextCell(<<"O", "c", "t">>, <<1, 6, 7, 7>>),
     MissingCell}

\* Date cells that it rejects: Jan-24 and Jan-1500
BadDateCells ==
    {TextCell(<<"J", "a", "n">>, <<2, 4>>),
     TextCell(<<"J", "a", "n">>, <<1, 5, 0, 0>>)}

DateCells == GoodDateCells \cup BadDateCells

\* the target cells of a row: na are the columns whose cell is missing,
\* text the columns whose cell holds text that is no number
CellPatterns ==
    {[na |-> {}, text |-> {}],
     [na |-> {"SF6_seasonal"}, text |-> {}],
     [na |-> {}, text |-> {"CH4_seasonal"}]}

Row(cell, cp) == [Date |-> cell, na |-> cp.na, text |-> cp.text]

\* the rows: any target cells beside a date that is accepted; a date that is
\* rejected ends the run on line 50 whatever stands beside it, and comes
\* with numbers only
Rows ==
    {Row(c, cp) : c \in GoodDateCells, cp \in CellPatterns}
        \cup {Row(c, [na |-> {}, text |-> {}]) : c \in BadDateCells}

ColumnSets == {AllColumns, AllColumns \ {"Date"}, AllColumns \ {"SF6_seasonal"}}

\* the tables: up to MaxRows rows under all the columns; a table that
\* lacks a column ends the run on line 50 or 60 whatever its rows, and comes
\* with no row or one
Tables ==
    [cols : {AllColumns}, rows : UNION {[1..n -> Rows] : n \in 0..MaxRows}]
        \cup [cols : ColumnSets \ {AllColumns}, rows : {<<>>} \cup {<<r>> : r \in Rows}]

\* no frame: read_csv raised, or the raw frame was dropped on line 66
NoTable == [cols |-> {}, rows |-> <<>>]

Outcomes == {Raises, Fitted(NaN)} \cup {Fitted(Num(v)) : v \in 1..MaxAic}

AllRaise == [k \in 1..NumCandidates |-> Raises]

\* the candidates from start on answer as w says, all others raise
WindowFits(start, w) ==
    [k \in 1..NumCandidates |->
        IF k >= start /\ k < start + Window THEN w[k - start + 1] ELSE Raises]

\* the answers the search is checked on: the window anywhere
SearchFits == {WindowFits(st, w) : st \in 1..NumCandidates, w \in [1..Window -> Outcomes]}

\* the answers a whole run is checked on: one candidate, the first or the
\* last of the enumeration, answers anything and all others raise; no model
\* can be built on an empty series or on a column that is not numeric
RunFits(frame, dtype) ==
    IF Len(frame) = 0 \/ dtype # "float64" THEN {AllRaise}
    ELSE {[AllRaise EXCEPT ![k] = o] : k \in {1, NumCandidates}, o \in Outcomes}

NoFits == <<>>

\* no frame, no dtypes
NoDtypes == [g \in Gases |-> "none"]

-----------------------------------------------------------------------------
(* The script, top to bottom.                                              *)

NotWritten == [written |-> FALSE, rows |-> <<>>]

NoHtml == [written |-> FALSE, images |-> <<>>]

Init ==
    /\ pc = "load"
    /\ \/ source = "unreachable" /\ table = NoTable
       \/ /\ table \in Tables
          /\ source = IF Malformed(table) THEN "malformed" ELSE "ok"
    /\ df = <<>>
    /\ dtypes = NoDtypes
    /\ gas_idx = 0
    /\ fits = NoFits
    /\ search_trace = <<>>
    /\ best_order = None
    /\ best_seasonal_order = None
    /\ all_forecasts = <<>>
    /\ csv = NotWritten
    /\ logo_file = "unknown"
    /\ logo_available = FALSE
    /\ html = NoHtml
    /\ error = "none"

ReadCsvNeverRaises(src) == FALSE

\* line 43 raises
ReadCsvRaises(src) == src = "unreachable"

\* lines 42-47: read the table; on any exception print it and exit()
LoadData ==
    /\ pc = "load"
    /\ \/ /\ ReadCsvRaises(source)
          /\ pc' = "exited"
          /\ error' = "load_error"
       \/ /\ ~ReadCsvRaises(source)
          /\ pc' = "prepare"
          /\ error' = error
    /\ UNCHANGED <<source, table, df, dtypes, gas_idx, fits, search_trace, best_order,
                   best_seasonal_order, all_forecasts, csv, logo_file, logo_available, html>>

\* lines 49-66: an exception here is caught by nothing
PrepareData ==
    /\ pc = "prepare"
    /\ \/ /\ PrepareRaises(table)
          /\ pc' = "crashed"
          /\ error' = "prepare_exception"
          /\ UNCHANGED <<table, df, dtypes>>
       \/ /\ ~PrepareRaises(table)
          /\ df' = CleanFrame(table)
          /\ dtypes' = [g \in Gases |-> Dtype(table, g)]
          /\ table' = NoTable
          /\ pc' = "series"
          /\ error' = error
    /\ UNCHANGED <<source, gas_idx, fits, search_trace, best_order,
                   best_seasonal_order, all_forecasts, csv, logo_file, logo_available, html>>

\* lines 108-110: the next gas and its series; what the library will answer
\* on that series is settled by the series
SelectSeries ==
    /\ pc = "series"
    /\ gas_idx < Len(target_gases)
    /\ gas_idx' = gas_idx + 1
    /\ fits' \in RunFits(df, dtypes[target_gases[gas_idx']])
    /\ pc' = "optimize"
    /\ UNCHANGED <<source, table, df, dtypes, search_trace, best_order, best_seasonal_order,
                   all_forecasts, csv, logo_file, logo_available, html, error>>

\* line 112 and lines 72-100: the whole call of optimize_sarima
OptimizeSarima ==
    /\ pc = "optimize"
    /\ LET tr == SearchTrace(s, fits)
       IN /\ search_trace' = tr
          /\ best_order' = tr[Len(tr)].best_order
          /\ best_seasonal_order' = tr[Len(tr)].best_seasonal_order
    /\ pc' = "fit"
    /\ UNCHANGED <<source, table, df, dtypes, gas_idx, fits, all_forecasts, csv,
                   logo_file, logo_available, html, error>>

FinalFitAlwaysPasses(order, seasonal_order, f) == TRUE

\* lines 114-119 can raise: the library is handed no order pair
FinalFitCanRaise(order, seasonal_order) == order = None \/ seasonal_order = None

\* lines 114-119 can pass.  A pair the search returned has been fitted on
\* this series before.  Handed None, a library that does not reject it fits
\* its default, plain order, which is a model the search has tried on this
\* series: it fits only if some candidate's fit did not raise.
FinalFitCanPass(order, seasonal_order, f) ==
    \/ order # None /\ seasonal_order # None
    \/ \E k \in 1..NumCandidates : ~f[k].raised

\* lines 125-127 raise: a series with no date has no last date (NaT) to
\* start the date range from, and a date range that runs past the last
\* date a nanosecond timestamp holds is out of bounds
ForecastRaises(frame) ==
    \/ IndexMax(frame) = NaT
    \/ ~InBounds(DateOffsetMonths(IndexMax(frame), forecast_horizon))

\* lines 125-135: the forecast records of one gas
ForecastRecords(gas, frame, horizon) ==
    LET last_data_date == IndexMax(frame)
        forecast_start_date == DateOffsetMonths(last_data_date, 1)
        forecast_dates == DateRangeMS(forecast_start_date, horizon)
    IN [i \in 1..horizon |-> [Gas |-> gas, Date |-> forecast_dates[i]]]

\* lines 114-137: fit the chosen order, forecast, append the records
FitForecast ==
    /\ pc = "fit"
    /\ \/ /\ FinalFitCanRaise(best_order, best_seasonal_order)
          /\ pc' = "crashed"
          /\ error' = "fit_exception"
          /\ UNCHANGED all_forecasts
       \/ /\ FinalFitCanPass(best_order, best_seasonal_order, fits)
          /\ ForecastRaises(df)
          /\ pc' = "crashed"
          /\ error' = "forecast_exception"
          /\ UNCHANGED all_forecasts
       \/ /\ FinalFitCanPass(best_order, best_seasonal_order, fits)
          /\ ~ForecastRaises(df)
          /\ all_forecasts' = Append(all_forecasts,
                 ForecastRecords(target_gases[gas_idx], df, forecast_horizon))
          /\ pc' = "series"
          /\ error' = error
    /\ UNCHANGED <<source, table, df, dtypes, gas_idx, fits, search_trace, best_order,
                   best_seasonal_order, csv, logo_file, logo_available, html>>

\* pd.concat(frames, ignore_index=True)
RECURSIVE Concat(_)
Concat(frames) ==
    IF frames = <<>> THEN <<>> ELSE Head(frames) \o Concat(Tail(frames))

\* lines 139-142, after the loop over the gases
WriteCsv ==
    /\ pc = "series"
    /\ gas_idx = Len(target_gases)
    /\ csv' = [written |-> TRUE, rows |-> Concat(all_forecasts)]
    /\ pc' = "logo"
    /\ UNCHANGED <<source, table, df, dtypes, gas_idx, fits, search_trace, best_order,
                   best_seasonal_order, all_forecasts, logo_file, logo_available, html, error>>

LogoFiles == {"absent", "readable", "unreadable"}

\* lines 147-154: open and read logo_bmkg.png.  FileNotFoundError is caught;
\* any other failure of open() or read() (the path is a directory, the file
\* may not be read) is caught by nothing
LoadLogo ==
    /\ pc = "logo"
    /\ logo_file' \in LogoFiles
    /\ \/ /\ logo_file' = "readable"
          /\ logo_available' = TRUE
          /\ pc' = "html"
          /\ error' = error
       \/ /\ logo_file' = "absent"
          /\ logo_available' = FALSE
          /\ pc' = "html"
          /\ error' = error
       \/ /\ logo_file' = "unreadable"
          /\ logo_available' = logo_available
          /\ pc' = "crashed"
          /\ error' = "logo_exception"
    /\ UNCHANGED <<source, table, df, dtypes, gas_idx, fits, search_trace, best_order,
                   best_seasonal_order, all_forecasts, csv, html>>

ImagesAlways(available) == [i \in 1..NumPanels |-> "logo"]

\* lines 208-212
ImagesList(available) ==
    IF available THEN [i \in 1..NumPanels |-> "logo"] ELSE <<>>

HistoryMonths == 11

\* line 171 raises: the start of the history window, 11 months before the
\* last date, is a date no nanosecond timestamp holds
HistoryStartRaises(frame) ==
    ~InBounds(DateOffsetMonths(IndexMax(frame), 0 - HistoryMonths))

\* lines 156-261: build the chart and write it; an exception on line 171
\* is caught by nothing
WriteHtml ==
    /\ pc = "html"
    /\ \/ /\ HistoryStartRaises(df)
          /\ pc' = "crashed"
          /\ error' = "html_exception"
          /\ UNCHANGED html
       \/ /\ ~HistoryStartRaises(df)
          /\ html' = [written |-> TRUE, images |-> ImagesList(logo_available)]
          /\ pc' = "done"
          /\ error' = error
    /\ UNCHANGED <<source, table, df, dtypes, gas_idx, fits, search_trace, best_order,
                   best_seasonal_order, all_forecasts, csv, logo_file, logo_available>>

Next ==
    \/ LoadData
    \/ PrepareData
    \/ SelectSeries
    \/ OptimizeSarima
    \/ FitForecast
    \/ WriteCsv
    \/ LoadLogo
    \/ WriteHtml

Spec == Init /\ [][Next]_vars

-----------------------------------------------------------------------------
(* The search alone: the script stands at the call of optimize_sarima for  *)
(* the first gas, on a cleaned series, and the library's answers are drawn *)
(* from SearchFits.                                                        *)

InitSearch ==
    /\ pc = "optimize"
    /\ source = "ok"
    /\ table = NoTable
    /\ df = CleanFrame([cols |-> AllColumns,
                        rows |-> [i \in 1..MaxRows |-> [Date |-> TextCell(MonthAbbr[i], <<2, 0, 2, 4>>),
                                                        na |-> {}, text |-> {}]]])
    /\ dtypes = [g \in Gases |-> "float64"]
    /\ gas_idx = 1
    /\ fits \in SearchFits
    /\ search_trace = <<>>
    /\ best_order = None
    /\ best_seasonal_order = None
    /\ all_forecasts = <<>>
    /\ csv = NotWritten
    /\ logo_file = "unknown"
    /\ logo_available = FALSE
    /\ html = NoHtml
    /\ error = "none"

NextSearch == OptimizeSarima

SpecSearch == InitSearch /\ [][NextSearch]_vars

-----------------------------------------------------------------------------
(* What the claims speak of.                                               *)

\* the order pair fitted in iteration k of the search
Candidate(k) == <<NestedLoops[k].order, SeasonalOrder(NestedLoops[k].parts, s)>>

\* the grid of the claims: every component of both triples from {0, 1},
\* the seasonal one followed by the period 12
GridOrders == {<<a, b, c>> : a \in {0, 1}, b \in {0, 1}, c \in {0, 1}}

GridPairs == {<<o, <<so[1], so[2], so[3], 12>>>> : o \in GridOrders, so \in GridOrders}

\* optimize_sarima has returned
Returned == pc = "fit" /\ search_trace # <<>>

\* the candidates whose fit did not raise
Converged == {k \in 1..NumCandidates : ~fits[k].raised}

\* the candidates whose fit did not raise and whose AIC is a number
Scored == {k \in Converged : fits[k].aic.k = "num"}

\* the month count of a timestamp
Ord(date) == date.y * 12 + date.m - 1

\* how a run stands: where, with what error, with which files written
RunOutcome ==
    [pc |-> pc, error |-> error, at |-> gas_idx,
     csv |-> csv.written, html |-> html.written]

\* how a run ends when no candidate of gas number i fits
NoConvergenceOutcome(i) ==
    [pc |-> "crashed", error |-> "fit_exception", at |-> i,
     csv |-> FALSE, html |-> FALSE]

-----------------------------------------------------------------------------
\* C1, as stated: optimize_sarima returns the order pair with the lowest AIC
\* among all candidates whose fit did not raise, and (None, None) exactly
\* when no candidate's fit converged.
C1_LowestAmongConverged ==
    Returned =>
        IF Converged = {}
        THEN best_order = None /\ best_seasonal_order = None
        ELSE \E k \in Converged :
                /\ Candidate(k) = <<best_order, best_seasonal_order>>
                /\ \A j \in Scored :
                      fits[k].aic.k = "num" => fits[k].aic.v <= fits[j].aic.v

\* C1, amended: optimize_sarima returns the order pair with the lowest AIC
\* among the candidates whose fit did not raise and whose AIC is a number
\* (not NaN); it returns (None, None) exactly when there is no such
\* candidate, also when some fits converged with a NaN AIC.
C1_LowestAmongScored ==
    Returned =>
        IF Scored = {}
        THEN best_order = None /\ best_seasonal_order = None
        ELSE \E k \in Scored :
                /\ Candidate(k) = <<best_order, best_seasonal_order>>
                /\ \A j \in Scored : fits[k].aic.v <= fits[j].aic.v

\* a later candidate with a lower score has replaced an earlier one, past a
\* candidate that converged with a NaN score
C1_Witness ==
    /\ Returned
    /\ \E i, j, k \in Scored \cup Converged :
          /\ i < j /\ j < k
          /\ i \in Scored /\ j \notin Scored /\ k \in Scored
          /\ fits[k].aic.v < fits[i].aic.v
          /\ Candidate(k) = <<best_order, best_seasonal_order>>

\* C2: a candidate whose fit raises leaves the best-so-far score and order
\* pair as they were, is never the one returned, and stops nothing: the
\* search runs one iteration for every pair of the grid, each exactly once.
C2_FailureSkipped ==
    Returned =>
        /\ Len(search_trace) = NumCandidates + 1
        /\ \A k \in 1..NumCandidates :
              fits[k].raised => search_trace[k + 1] = search_trace[k]
        /\ \A k \in 1..NumCandidates :
              fits[k].raised => Candidate(k) # <<best_order, best_seasonal_order>>
        /\ {Candidate(k) : k \in 1..NumCandidates} = GridPairs
        /\ NumCandidates = Cardinality(GridPairs)
        /\ Cardinality(GridPairs) = 64

\* a candidate fitted, a later one raised, and a still later one fitted better
C2_Witness ==
    /\ Returned
    /\ \E i, j, k \in 1..NumCandidates :
          /\ i < j /\ j < k
          /\ i \in Scored /\ fits[j].raised /\ k \in Scored
          /\ search_trace[j + 1].best_order = Candidate(i)[1]
          /\ Candidate(k) = <<best_order, best_seasonal_order>>
          /\ Candidate(k) # Candidate(i)

\* C3: of several candidates with the same lowest AIC the first in the
\* order of the loops is returned, and a candidate whose score equals the
\* best so far never replaces it.
C3_FirstOfTiesWins ==
    Returned =>
        /\ \A k \in Scored :
              Candidate(k) = <<best_order, best_seasonal_order>> =>
                  \A j \in Scored : fits[j].aic.v = fits[k].aic.v => k <= j
        /\ \A k \in Scored :
              search_trace[k].best_aic = fits[k].aic =>
                  search_trace[k + 1] = search_trace[k]

\* two candidates tie on the lowest score and the earlier one is returned
C3_Witness ==
    /\ Returned
    /\ \E i, j \in Scored :
          /\ i < j
          /\ fits[i].aic.v = fits[j].aic.v
          /\ \A k \in Scored : fits[i].aic.v <= fits[k].aic.v
          /\ Candidate(i) = <<best_order, best_seasonal_order>>

\* C10: at every point of the search and at return the two best orders are
\* both absent (and the best score is still +inf) or both set, and then
\* they are the two halves of one candidate already fitted, whose score is
\* finite and is the best-so-far score; the seasonal half ends in the
\* period 12 and every component is 0 or 1.
C10_NeverPartial ==
    Returned =>
        /\ best_order = search_trace[Len(search_trace)].best_order
        /\ best_seasonal_order = search_trace[Len(search_trace)].best_seasonal_order
        /\ \A n \in 1..Len(search_trace) :
              LET b == search_trace[n]
              IN /\ b.best_order = None <=> b.best_seasonal_order = None
                 /\ b.best_order = None => b.best_aic = Inf
                 /\ b.best_order # None =>
                       /\ b.best_aic.k = "num"
                       /\ \E k \in 1..(n - 1) :
                             /\ Candidate(k) = <<b.best_order, b.best_seasonal_order>>
                             /\ ~fits[k].raised
                             /\ fits[k].aic = b.best_aic
                       /\ <<b.best_order, b.best_seasonal_order>> \in GridPairs
                       /\ Len(b.best_seasonal_order) = 4
                       /\ b.best_seasonal_order[4] = 12

\* the search went from nothing found to a pair, past a NaN score
C10_Witness ==
    /\ Returned
    /\ best_order # None
    /\ best_seasonal_order # None
    /\ \E j, k \in Converged :
          /\ j < k
          /\ j \notin Scored
          /\ search_trace[k].best_order = None
          /\ search_trace[k + 1].best_order # None

-----------------------------------------------------------------------------
\* the dates of the cleaned series
HistoricalDates == {df[i] : i \in 1..Len(df)} \ {NaT}

\* the last historical date of the cleaned series
LastHistorical ==
    CHOOSE x \in HistoricalDates : \A y \in HistoricalDates : Ord(y) <= Ord(x)

\* C4: every series that is forecast gets exactly 6 records, dated the 6
\* consecutive month starts that begin one month after the series' last
\* historical date; a finished run has written exactly 6 records for each
\* of the four gases.
C4_SixContiguousMonths ==
    /\ \A i \in 1..Len(all_forecasts) :
          /\ Len(all_forecasts[i]) = 6
          /\ \A n \in 1..Len(all_forecasts[i]) :
                /\ all_forecasts[i][n].Gas = target_gases[i]
                /\ all_forecasts[i][n].Date.d = 1
                /\ all_forecasts[i][n].Date.m \in 1..12
                /\ Ord(all_forecasts[i][n].Date) = Ord(LastHistorical) + n
    /\ pc = "done" =>
          /\ csv.written
          /\ Len(csv.rows) = 24
          /\ \A g \in Gases :
                Cardinality({n \in 1..Len(csv.rows) : csv.rows[n].Gas = g}) = 6

\* a run finished whose history ends in December: every forecast date is in
\* the next year
C4_Witness ==
    /\ pc = "done"
    /\ Len(df) >= 2
    /\ LastHistorical = [y |-> 2023, m |-> 12, d |-> 1]
    /\ csv.rows[1].Date = [y |-> 2024, m |-> 1, d |-> 1]

\* C5, as stated: with the source unreachable or malformed the run ends
\* before any output: neither file is written and no series is searched or
\* forecast; a run that ends without failure has written both files.
C5_AbortBeforeAnySearch ==
    /\ source \in {"unreachable", "malformed"} =>
          /\ ~csv.written
          /\ ~html.written
          /\ gas_idx = 0
          /\ search_trace = <<>>
          /\ all_forecasts = <<>>
    /\ pc = "done" => csv.written /\ html.written

\* C5, amended: with the source unreachable or malformed the run ends
\* having written neither file.  No series is searched or forecast when
\* the source is unreachable or the table raises in the preparation; a
\* target column that is not numeric is met only in the loop over the
\* gases: the series before it are searched and forecast, its own search
\* runs, and the run ends there.  A run without failure has written both
\* files.
C5_AbortBeforeOutput ==
    /\ source \in {"unreachable", "malformed"} =>
          /\ ~csv.written
          /\ ~html.written
          /\ pc # "done"
    /\ source = "unreachable" => pc \in {"load", "exited"} /\ gas_idx = 0
    /\ (source = "malformed" /\ gas_idx = 0) =>
          /\ pc \in {"load", "prepare", "series", "crashed"}
          /\ search_trace = <<>>
          /\ all_forecasts = <<>>
    /\ (source = "malformed" /\ gas_idx > 0) =>
          /\ \E i \in gas_idx..Len(target_gases) : dtypes[target_gases[i]] = "object"
          /\ \A i \in 1..Len(all_forecasts) : dtypes[target_gases[i]] = "float64"
    /\ (source = "malformed" /\ pc = "series") => dtypes # NoDtypes
    /\ pc \in {"exited", "crashed"} => error # "none" /\ ~html.written
    /\ (pc = "crashed" /\ csv.written) =>
          source = "ok" /\ error \in {"logo_exception", "html_exception"}
    /\ pc = "done" => source = "ok" /\ error = "none" /\ csv.written /\ html.written

\* text in the second target column has ended the run at the second gas,
\* after the first gas was searched and forecast and the second searched
C5_Witness ==
    /\ source = "malformed"
    /\ pc = "crashed"
    /\ error = "fit_exception"
    /\ gas_idx = 2
    /\ Len(all_forecasts) = 1
    /\ dtypes["CO2_seasonal"] = "float64"
    /\ dtypes["CH4_seasonal"] = "object"
    /\ Len(search_trace) = NumCandidates + 1
    /\ ~csv.written
    /\ ~html.written

\* C6: when the search of a series ends with no candidate converged, it
\* returns no order pair and the run ends at that series with an uncaught
\* exception: no later series is processed and neither file is written,
\* whatever was forecast before.
C6_SearchFailureAborts ==
    /\ (gas_idx >= 1 /\ pc # "optimize" /\ Converged = {}) =>
          /\ best_order = None
          /\ best_seasonal_order = None
          /\ pc \in {"fit", "crashed"}
          /\ ~csv.written
          /\ ~html.written
          /\ Len(all_forecasts) = gas_idx - 1
    /\ (pc = "crashed" /\ error = "fit_exception") =>
          /\ best_order = None
          /\ RunOutcome = NoConvergenceOutcome(gas_idx)

\* every fit of the third series raised, after two series were forecast
C6_Witness ==
    /\ pc = "crashed"
    /\ error = "fit_exception"
    /\ gas_idx = 3
    /\ Len(all_forecasts) = 2
    /\ df # <<>>
    /\ Converged = {}

\* the table lists consecutive months, one row each, in ascending order
MonthlyTable(t) ==
    /\ ~Malformed(t)
    /\ \A i \in 1..Len(t.rows) : t.rows[i].Date.kind = "text"
    /\ \A i \in 1..(Len(t.rows) - 1) :
          Ord(ParseDate(t.rows[i + 1].Date)) = Ord(ParseDate(t.rows[i].Date)) + 1

\* every month from the first to the last date of the frame is in it
NoGaps(frame) ==
    frame # <<>> =>
        \A o \in Ord(frame[1])..Ord(frame[Len(frame)]) :
            \E i \in 1..Len(frame) : Ord(frame[i]) = o

\* C7: after cleaning, every month between the first and the last retained
\* date is present in the cleaned data; stated here for the input tables
\* that themselves list every month, so that only the cleaning can open a gap.
C7_NoGapsAfterCleaning ==
    [][(pc = "prepare" /\ pc' = "series" /\ MonthlyTable(table)) => NoGaps(df')]_vars

\* C8: a run whose series is empty after cleaning ends otherwise than a run
\* on a series on which every fit failed.
C8_EmptySeriesReportedDistinctly ==
    (pc = "crashed" /\ gas_idx >= 1 /\ df = <<>>) =>
        RunOutcome # NoConvergenceOutcome(gas_idx)

=============================================================================
